---- MODULE Spec2Model ----
(***************************************************************************)
(* Model of easybuild/tools/job/pbs_python.py: the Pbs job server          *)
(* (begin / submit / commit over one connection) and PbsJob (submission    *)
(* with a user hold, set_hold / release_hold, state, remove), together     *)
(* with the TORQUE scheduler the client library talks to.                  *)
(***************************************************************************)
EXTENDS Integers, Sequences, FiniteSets, TLC

\* ---------------------------------------------------------------- bounds
NumJobs == 2
MaxCalls == 2
MaxHandles == 2
MaxNodes == 3

\* ------------------------------------------------------------- constants
Jobs == 1..NumJobs
None == 0
USER_HOLD == "u"
OTHER_HOLD == "o"
SYSTEM_HOLD == "s"
KNOWN_HOLD_TYPES == {USER_HOLD, OTHER_HOLD, SYSTEM_HOLD}
\* hold kinds a caller passes: two known ones and one unknown one
HoldArgs == {USER_HOLD, OTHER_HOLD, "x"}

\* EasyBuild's logger class raises EasyBuildError from log.error(...)
LogErrorRaises == TRUE

MAX_WALLTIME == 72
\* an argument left at its default (hours=None, cores=None) is the empty set,
\* an argument given is the set of its value
NoArg == {}
ArgValue(arg) == CHOOSE v \in arg : TRUE
\* hours and cores a caller asks for
HoursArgs == {NoArg, {0}, {100}}
CoresArgs == {NoArg, {0}, {3}}
\* the nodes PBSQuery().getnodes() reports: core count np and state
NpValues == {1, 2}
NodeStates == {"free", "job-exclusive", "down"}
NodeTables == [1..MaxNodes -> [np : NpValues, state : NodeStates]]
DefaultNodes == [i \in 1..MaxNodes |-> [np |-> IF i = 1 THEN 1 ELSE 2, state |-> "free"]]

VARIABLES
    pbs,     \* the Pbs object: conn, _ppn, _submitted (hasList: the attribute exists)
    job,     \* the PbsJob objects: made, jobid, deps, holds, pbsconn, hours, cores
    nodes,   \* the cluster's node table
    lib,     \* the client library: handles handed out, handles open
    sched,   \* the scheduler's job table, indexed by job identifier
    ncall,   \* the number of submit, set_hold, release_hold and remove calls so far
    pc,      \* the caller's position: idle, or inside commit's loop at index i
    last,    \* history: the caller's last call, how it ended, the requests it sent
    ghost    \* history: the batch phase, the submit call that appended each entry
             \* of _submitted, the list indexes the running commit released, the
             \* number of node queries

vars == <<pbs, job, nodes, lib, sched, ncall, pc, last, ghost>>

\* ------------------------------------------------------------ list helpers
InSeq(s, x) == \E i \in DOMAIN s : s[i] = x

\* list.remove(x): drops the first occurrence
RemoveFirst(s, x) ==
    LET p == CHOOSE i \in DOMAIN s : s[i] = x /\ \A k \in 1..(i-1) : s[k] # x
    IN  [i \in 1..(Len(s)-1) |-> IF i < p THEN s[i] ELSE s[i+1]]

RECURSIVE SetToSeq(_)
SetToSeq(S) ==
    IF S = {} THEN <<>>
    ELSE LET m == CHOOSE x \in S : \A y \in S : x <= y
         IN  <<m>> \o SetToSeq(S \ {m})

\* ------------------------------------------------------------- scheduler
\* afterany: the dependent may start once a listed predecessor has terminated
DepsMet(id) ==
    sched[id].deps = {} \/ \E d \in sched[id].deps : sched[d].st = "F"

Active(id) == id # None /\ id \in DOMAIN sched /\ sched[id].st \in {"Q", "R"}

\* pbs_submit: [is_error, jobid]; fails on a closed handle and on a dependency
\* the scheduler cannot resolve, may fail with an error status or with no
\* identifier, otherwise returns the next identifier
PbsSubmitResults(h, depIds) ==
    {[is_error |-> TRUE, jobid |-> None], [is_error |-> FALSE, jobid |-> None]}
    \cup (IF h \in lib.open /\ \A d \in depIds : Active(d)
          THEN {[is_error |-> FALSE, jobid |-> Len(sched) + 1]}
          ELSE {})

\* pbs_holdjob / pbs_rlsjob: [is_error, ec], the error status pbs.error()
\* reports and the exit code; the call may fail with either, and succeeds only
\* on an open handle, for an active job and a known hold kind
PbsAttrResults(h, id, kind) ==
    {[is_error |-> TRUE, ec |-> 0], [is_error |-> TRUE, ec |-> 1],
     [is_error |-> FALSE, ec |-> 1]}
    \cup (IF h \in lib.open /\ Active(id) /\ kind \in KNOWN_HOLD_TYPES
          THEN {[is_error |-> FALSE, ec |-> 0]}
          ELSE {})

\* the scheduler carried the request out
AttrDone(res) == ~res.is_error /\ res.ec = 0

\* pbs_deljob: TRUE when the call succeeds
PbsDelResults(h, id) ==
    IF h \in lib.open /\ Active(id) THEN {TRUE, FALSE} ELSE {FALSE}

\* pbs_statjob: the job_state of the record found, "" when none is found
PbsStat(h, id) ==
    IF h \in lib.open /\ Active(id) THEN sched[id].st ELSE ""

SchedStart(id) ==
    /\ id \in DOMAIN sched
    /\ sched[id].st = "Q"
    /\ sched[id].holds = {}
    /\ DepsMet(id)
    /\ sched' = [sched EXCEPT ![id].st = "R"]
    /\ UNCHANGED <<nodes, pbs, job, lib, ncall, pc, last, ghost>>

SchedFinish(id) ==
    /\ id \in DOMAIN sched
    /\ sched[id].st = "R"
    /\ sched' = [sched EXCEPT ![id].st = "F"]
    /\ UNCHANGED <<nodes, pbs, job, lib, ncall, pc, last, ghost>>

\* ------------------------------------------------------- request history
Req(op, j, id, kind, deps, by, ok) ==
    [op |-> op, job |-> j, id |-> id, kind |-> kind, deps |-> deps, by |-> by,
     ok |-> ok]

Idle == pc.at = "idle"
Room == ncall < MaxCalls
Call(op, j, out, sent) == [op |-> op, job |-> j, out |-> out, sent |-> sent]

\* ------------------------------------------------------------------ Pbs
\* connect_to_server: connects only when there is no connection
ConnAfterConnect == IF pbs.conn = None THEN lib.handles + 1 ELSE pbs.conn
LibAfterConnect ==
    IF pbs.conn = None
    THEN [handles |-> lib.handles + 1, open |-> lib.open \cup {lib.handles + 1}]
    ELSE lib
CanConnect == pbs.conn # None \/ lib.handles < MaxHandles

Begin ==
    /\ Idle
    /\ CanConnect
    /\ pbs' = [pbs EXCEPT !.conn = ConnAfterConnect, !.hasList = TRUE,
                           !.submitted = <<>>]
    /\ lib' = LibAfterConnect
    /\ ghost' = [ghost EXCEPT !.phase = "Open", !.batch = {}, !.subAt = <<>>,
                               !.rel = <<>>]
    /\ last' = Call("begin", None, "ok", <<>>)
    /\ UNCHANGED <<nodes, job, sched, ncall, pc>>

\* _get_ppn: the nodes that count, and how many of them report each core count
InterestingNodes == {"free", "job-exclusive"}
NpSeen(tbl) == {tbl[i].np : i \in {k \in DOMAIN tbl : tbl[k].state \in InterestingNodes}}
NpCount(tbl, np) ==
    Cardinality({i \in DOMAIN tbl : tbl[i].state \in InterestingNodes /\ tbl[i].np = np})

\* max([(j, i) for i, j in res.items()]): the greatest count, then the greatest np
MostFrequentNpLeast(tbl) ==
    CHOOSE np \in NpSeen(tbl) :
        \A o \in NpSeen(tbl) :
            \/ NpCount(tbl, o) < NpCount(tbl, np)
            \/ (NpCount(tbl, o) = NpCount(tbl, np) /\ o >= np)
MostFrequentNp(tbl) ==
    CHOOSE np \in NpSeen(tbl) :
        \A o \in NpSeen(tbl) :
            \/ NpCount(tbl, o) < NpCount(tbl, np)
            \/ (NpCount(tbl, o) = NpCount(tbl, np) /\ o <= np)

\* if not self._ppn: the nodes are queried only while nothing is cached
PpnQueries(cached) == cached = None
\* max() of an empty list raises
PpnFails == PpnQueries(pbs.ppn) /\ NpSeen(nodes) = {}
PpnAfterGet == IF PpnQueries(pbs.ppn) THEN MostFrequentNp(nodes) ELSE pbs.ppn

\* PbsJob.__init__: the effective hours and cores
HoursUnclamped(hours) == IF hours = NoArg THEN MAX_WALLTIME ELSE ArgValue(hours)
Hours(hours) ==
    LET h == IF hours = NoArg THEN MAX_WALLTIME ELSE ArgValue(hours)
    IN  IF h > MAX_WALLTIME THEN MAX_WALLTIME ELSE h
Cores(cores, max_cores) ==
    LET c == IF cores = NoArg THEN max_cores ELSE ArgValue(cores)
    IN  IF c > max_cores THEN max_cores ELSE c
\* log.warn is called when a value is reset
Clamped(hours, cores, max_cores) ==
    \/ (hours # NoArg /\ ArgValue(hours) > MAX_WALLTIME)
    \/ (cores # NoArg /\ ArgValue(cores) > max_cores)

\* make_job -> PbsJob.__init__: ppn is read first, then the job connects and
\* keeps the handle connect_to_server returns
MakeJob(j, hours, cores) ==
    /\ Idle
    /\ ~job[j].made
    /\ CanConnect
    /\ PpnQueries(pbs.ppn) => ghost.nq < MaxCalls
    /\ ghost' = [ghost EXCEPT !.nq = IF PpnQueries(pbs.ppn) THEN @ + 1 ELSE @]
    /\ IF PpnFails
       THEN /\ last' = Call("make_job", j, "error", <<>>)
            /\ UNCHANGED <<job, pbs, lib>>
       ELSE /\ job' = [job EXCEPT ![j] =
                         [made |-> TRUE, jobid |-> None, deps |-> <<>>, holds |-> <<>>,
                          pbsconn |-> ConnAfterConnect, hours |-> Hours(hours),
                          cores |-> Cores(cores, PpnAfterGet)]]
            /\ pbs' = [pbs EXCEPT !.conn = ConnAfterConnect, !.ppn = PpnAfterGet]
            /\ lib' = LibAfterConnect
            /\ last' = Call("make_job", j,
                            IF Clamped(hours, cores, PpnAfterGet) THEN "warning" ELSE "ok",
                            <<>>)
    /\ UNCHANGED <<nodes, sched, ncall, pc>>

\* ---------------------------------------------------------------- PbsJob
\* the identifiers the afterany constraint names: dep.jobid for dep in self.deps
DepIds(deps) == {job[deps[i]].jobid : i \in DOMAIN deps}

\* the hold attribute of the submit request
HoldAttributesNone == {}
HoldAttributes == {USER_HOLD}

\* if is_error or jobid is None: the submission failed
SubmitFailedOnErrorOnly(is_error, jobid) == is_error
SubmitFailed(is_error, jobid) == is_error \/ jobid = None

SubmitShape(res) ==
    IF res.is_error THEN "err" ELSE IF res.jobid = None THEN "none" ELSE "ok"

\* the requests one Pbs.submit sends to the scheduler
SubmitReqsThenRelease(j, ids, res) ==
    <<Req("submit", j, res.jobid, HoldAttributes, ids, "submit", SubmitShape(res)),
      Req("rls", j, res.jobid, {USER_HOLD}, {}, "submit", "ok")>>
SubmitReqs(j, ids, res) ==
    <<Req("submit", j, res.jobid, HoldAttributes, ids, "submit", SubmitShape(res))>>

\* self._submitted.append(job)
AppendJob(list, j) == Append(list, j)

\* Pbs.submit(job, after): add_dependencies, job._submit(), _submitted.append(job)
Submit(j, after) ==
    /\ Idle
    /\ Room
    /\ job[j].made
    /\ ncall' = ncall + 1
    /\ LET deps1 == IF after # {} THEN job[j].deps \o SetToSeq(after) ELSE job[j].deps
           holds1 == Append(job[j].holds, USER_HOLD)
           ids == DepIds(deps1)
       IN  \E res \in PbsSubmitResults(job[j].pbsconn, ids) :
             LET failed == SubmitFailed(res.is_error, res.jobid)
                 raised == (failed /\ LogErrorRaises) \/ ~pbs.hasList
             IN  /\ job' = [job EXCEPT ![j].deps = deps1, ![j].holds = holds1,
                                       ![j].jobid = IF failed THEN @ ELSE res.jobid]
                 /\ sched' = IF res.jobid # None
                             THEN Append(sched, [st |-> "Q", holds |-> HoldAttributes,
                                                 deps |-> ids])
                             ELSE sched
                 /\ pbs' = IF raised THEN pbs
                           ELSE [pbs EXCEPT !.submitted = AppendJob(@, j)]
                 /\ ghost' = [ghost EXCEPT
                        !.batch = IF res.jobid # None /\ ghost.phase = "Open"
                                  THEN @ \cup {res.jobid} ELSE @,
                        !.subAt = IF raised THEN @ ELSE AppendJob(@, ncall + 1)]
                 /\ last' = Call("submit", j, IF raised THEN "error" ELSE "ok",
                                 SubmitReqs(j, ids, res))
    /\ UNCHANGED <<nodes, lib, pc>>

\* if hold_type not in self.holds
NeedsSetAlways(holds, k) == TRUE
NeedsSet(holds, k) == ~InSeq(holds, k)

\* if hold_type in self.holds
NeedsRelease(holds, k) == InSeq(holds, k)

AttrShape(ok) == IF ok THEN "ok" ELSE "err"

\* if is_error or ec: the hold or release failed
AttrFailedOnErrorOnly(is_error, ec) == is_error
AttrFailed(is_error, ec) == is_error \/ ec # 0

SetHold(j, k) ==
    /\ Idle
    /\ Room
    /\ job[j].made
    /\ IF NeedsSet(job[j].holds, k)
       THEN IF k \notin KNOWN_HOLD_TYPES /\ LogErrorRaises
            THEN /\ last' = Call("set_hold", j, "error", <<>>)
                 /\ UNCHANGED <<job, sched>>
            ELSE \E res \in PbsAttrResults(job[j].pbsconn, job[j].jobid, k) :
                   LET failed == AttrFailed(res.is_error, res.ec)
                   IN  /\ sched' = IF AttrDone(res)
                                   THEN [sched EXCEPT ![job[j].jobid].holds = @ \cup {k}]
                                   ELSE sched
                       /\ job' = IF failed THEN job
                                 ELSE [job EXCEPT ![j].holds = Append(@, k)]
                       /\ last' = Call("set_hold", j, IF failed THEN "error" ELSE "ok",
                                       <<Req("hold", j, job[j].jobid, {k}, {}, "direct",
                                             AttrShape(AttrDone(res)))>>)
       ELSE /\ last' = Call("set_hold", j, "warning", <<>>)
            /\ UNCHANGED <<job, sched>>
    /\ ncall' = ncall + 1
    /\ UNCHANGED <<nodes, pbs, lib, pc, ghost>>

\* PbsJob.release_hold(hold_type): out is how the call ends, sent what it sends
release_hold(j, k, by, out, sent) ==
    IF NeedsRelease(job[j].holds, k)
    THEN IF k \notin KNOWN_HOLD_TYPES /\ LogErrorRaises
         THEN /\ out = "error"
              /\ sent = <<>>
              /\ UNCHANGED <<job, sched>>
         ELSE \E res \in PbsAttrResults(job[j].pbsconn, job[j].jobid, k) :
                LET failed == AttrFailed(res.is_error, res.ec)
                IN  /\ out = IF failed THEN "error" ELSE "ok"
                    /\ sent = <<Req("rls", j, job[j].jobid, {k}, {}, by,
                                    AttrShape(AttrDone(res)))>>
                    /\ sched' = IF AttrDone(res)
                                THEN [sched EXCEPT ![job[j].jobid].holds = @ \ {k}]
                                ELSE sched
                    /\ job' = IF failed THEN job
                              ELSE [job EXCEPT ![j].holds = RemoveFirst(@, k)]
    ELSE /\ out = "warning"
         /\ sent = <<>>
         /\ UNCHANGED <<job, sched>>

\* what one release_hold call can send
RlsSent(j, k, by) ==
    {<<>>} \cup {<<Req("rls", j, job[j].jobid, {k}, {}, by, s)>> : s \in {"ok", "err"}}

ReleaseHold(j, k) ==
    /\ Idle
    /\ Room
    /\ job[j].made
    /\ \E out \in {"ok", "warning", "error"} : \E sent \in RlsSent(j, k, "direct") :
         /\ release_hold(j, k, "direct", out, sent)
         /\ last' = Call("release_hold", j, out, sent)
    /\ ncall' = ncall + 1
    /\ UNCHANGED <<nodes, pbs, lib, pc, ghost>>

has_holds(holds) == holds # <<>>

\* for job in self._submitted: the list index visited at loop step i
CommitIndexReversed(i) == Len(pbs.submitted) + 1 - i
CommitIndex(i) == i

CommitStart ==
    /\ Idle
    /\ pbs.hasList
    /\ pc' = [at |-> "commit", i |-> 1]
    /\ ghost' = [ghost EXCEPT !.phase = "Committed", !.rel = <<>>]
    /\ last' = Call("commit", None, "running", <<>>)
    /\ UNCHANGED <<nodes, pbs, job, lib, sched, ncall>>

CommitStep ==
    /\ pc.at = "commit"
    /\ pc.i <= Len(pbs.submitted)
    /\ LET idx == CommitIndex(pc.i)
           j == pbs.submitted[idx]
       IN  IF has_holds(job[j].holds)
           THEN \E out \in {"ok", "warning", "error"} :
                \E sent \in RlsSent(j, USER_HOLD, "commit") :
                  /\ release_hold(j, USER_HOLD, "commit", out, sent)
                  /\ ghost' = [ghost EXCEPT
                                 !.rel = IF sent # <<>> THEN Append(@, idx) ELSE @]
                  /\ IF out = "error" /\ LogErrorRaises
                     THEN /\ pc' = [at |-> "idle", i |-> 0]
                          /\ last' = Call("commit", j, "error", sent)
                     ELSE /\ pc' = [pc EXCEPT !.i = @ + 1]
                          /\ last' = Call("commit", j, "running", sent)
           ELSE /\ pc' = [pc EXCEPT !.i = @ + 1]
                /\ last' = Call("commit", j, "running", <<>>)
                /\ UNCHANGED <<job, sched, ghost>>
    /\ UNCHANGED <<nodes, pbs, lib, ncall>>

\* disconnect_from_server: pbs_disconnect(self.conn) is called whatever
\* self.conn is (the request's id is the handle passed); what the client
\* library does with no handle is not known: it returns or raises
DiscReqs ==
    <<Req("disc", None, pbs.conn, {}, {}, "pbs",
          IF pbs.conn \in lib.open THEN "ok" ELSE "err")>>
DiscOutcomes == IF pbs.conn = None THEN {"ok", "error"} ELSE {"ok"}

\* disconnect_from_server, then the log of submitted jobs
CommitEnd ==
    /\ pc.at = "commit"
    /\ pc.i > Len(pbs.submitted)
    /\ lib' = [lib EXCEPT !.open = @ \ {pbs.conn}]
    /\ pbs' = [pbs EXCEPT !.conn = None]
    /\ pc' = [at |-> "idle", i |-> 0]
    /\ \E out \in DiscOutcomes : last' = Call("commit", None, out, DiscReqs)
    /\ UNCHANGED <<nodes, job, sched, ncall, ghost>>

\* Pbs.connect_to_server() called by the user
Connect ==
    /\ Idle
    /\ CanConnect
    /\ pbs' = [pbs EXCEPT !.conn = ConnAfterConnect]
    /\ lib' = LibAfterConnect
    /\ last' = Call("connect", None, "ok", <<>>)
    /\ UNCHANGED <<nodes, job, sched, ncall, pc, ghost>>

\* Pbs.disconnect_from_server() called by the user
Disconnect ==
    /\ Idle
    /\ lib' = [lib EXCEPT !.open = @ \ {pbs.conn}]
    /\ pbs' = [pbs EXCEPT !.conn = None]
    /\ \E out \in DiscOutcomes : last' = Call("disconnect", None, out, DiscReqs)
    /\ UNCHANGED <<nodes, job, sched, ncall, pc, ghost>>

\* PbsJob.state() through PbsJob.info()
StateOfNoRecordFinished(jobid, jstate) ==
    IF jstate = "" THEN "finished"
    ELSE IF jstate = "Q" THEN "queued" ELSE "running"
StateOf(jobid, jstate) ==
    IF jstate = ""
    THEN IF jobid = None THEN "not submitted" ELSE "finished"
    ELSE IF jstate = "Q" THEN "queued" ELSE "running"

State(j) ==
    /\ Idle
    /\ job[j].made
    /\ IF job[j].jobid = None
       THEN last' = Call("state", j, StateOf(job[j].jobid, ""), <<>>)
       ELSE last' = Call("state", j,
                         StateOf(job[j].jobid, PbsStat(job[j].pbsconn, job[j].jobid)),
                         <<Req("stat", j, job[j].jobid, {}, {}, "direct", "ok")>>)
    /\ UNCHANGED <<nodes, pbs, job, lib, sched, ncall, pc, ghost>>

\* PbsJob.remove(): pbs_deljob, an error when it reports a failure
Remove(j) ==
    /\ Idle
    /\ Room
    /\ job[j].made
    /\ ncall' = ncall + 1
    /\ \E ok \in PbsDelResults(job[j].pbsconn, job[j].jobid) :
         /\ sched' = IF ok THEN [sched EXCEPT ![job[j].jobid].st = "F"] ELSE sched
         /\ last' = Call("remove", j, IF ok THEN "ok" ELSE "error",
                         <<Req("del", j, job[j].jobid, {}, {}, "direct", AttrShape(ok))>>)
    /\ UNCHANGED <<nodes, pbs, job, lib, pc, ghost>>

InitObjects ==
    /\ pbs = [conn |-> None, ppn |-> None, hasList |-> FALSE, submitted |-> <<>>]
    /\ job = [j \in Jobs |-> [made |-> FALSE, jobid |-> None, deps |-> <<>>,
                              holds |-> <<>>, pbsconn |-> None, hours |-> None,
                              cores |-> None]]
    /\ lib = [handles |-> 0, open |-> {}]
    /\ sched = <<>>
    /\ ncall = 0
    /\ pc = [at |-> "idle", i |-> 0]
    /\ last = Call("init", None, "ok", <<>>)
    /\ ghost = [phase |-> "NotStarted", batch |-> {}, subAt |-> <<>>, rel |-> <<>>,
                nq |-> 0]

Init == InitObjects /\ nodes = DefaultNodes

Made == {j \in Jobs : job[j].made}

\* any caller of the public interface, and the scheduler
Next ==
    \/ Begin
    \/ \E j \in Jobs : MakeJob(j, NoArg, NoArg)
    \/ \E j \in Jobs : \E after \in SUBSET (Made \ {j}) : Submit(j, after)
    \/ CommitStart
    \/ CommitStep
    \/ CommitEnd
    \/ \E j \in Jobs : \E k \in HoldArgs : SetHold(j, k)
    \/ \E j \in Jobs : \E k \in HoldArgs : ReleaseHold(j, k)
    \/ \E j \in Jobs : State(j)
    \/ \E j \in Jobs : Remove(j)
    \/ Connect
    \/ Disconnect
    \/ \E id \in DOMAIN sched : SchedStart(id)
    \/ \E id \in DOMAIN sched : SchedFinish(id)

Spec == Init /\ [][Next]_vars

\* a caller that follows the batch protocol: begin, submit each job once in
\* topological order (a failed submission may be tried again), commit
Submitted == {j \in Jobs : job[j].jobid # None}

NextBatch ==
    \/ ghost.phase # "Open" /\ Begin
    \/ \E j \in Jobs : MakeJob(j, NoArg, NoArg)
    \/ \E j \in Jobs \ Submitted : \E after \in SUBSET Submitted :
          ghost.phase = "Open" /\ Submit(j, after)
    \/ ghost.phase = "Open" /\ CommitStart
    \/ CommitStep
    \/ CommitEnd
    \/ \E id \in DOMAIN sched : SchedStart(id)
    \/ \E id \in DOMAIN sched : SchedFinish(id)

SpecBatch == Init /\ [][NextBatch]_vars

\* the batch protocol, with holds set and released on the jobs between the calls
NextHold ==
    \/ NextBatch
    \/ \E j \in Jobs : \E k \in HoldArgs : SetHold(j, k)
    \/ \E j \in Jobs : \E k \in HoldArgs : ReleaseHold(j, k)

SpecHold == Init /\ [][NextHold]_vars

\* the batch protocol, with the jobs polled and removed between the calls
NextPoll ==
    \/ NextBatch
    \/ \E j \in Jobs : State(j)
    \/ \E j \in Jobs : Remove(j)

SpecPoll == Init /\ [][NextPoll]_vars

\* jobs constructed with default resources on any cluster
InitPpn == InitObjects /\ nodes \in NodeTables

NextPpn == \E j \in Jobs : MakeJob(j, NoArg, NoArg)

SpecPpn == InitPpn /\ [][NextPpn]_vars

\* jobs constructed with any requested hours and cores, on a cluster whose
\* nodes are all free
FreeNodeTables == {tbl \in NodeTables : \A i \in DOMAIN tbl : tbl[i].state = "free"}

InitRes == InitObjects /\ nodes \in FreeNodeTables

NextRes == \E j \in Jobs : \E hours \in HoursArgs : \E cores \in CoresArgs :
              MakeJob(j, hours, cores)

SpecRes == InitRes /\ [][NextRes]_vars

\* ------------------------------------------------------------------ claims
Sent == {last.sent[i] : i \in DOMAIN last.sent}
ListJobs == {pbs.submitted[i] : i \in DOMAIN pbs.submitted}

\* C1: in a batch run (begin, submit*, commit) no hold-release request goes to
\* the scheduler before the batch's last submit request: Pbs.submit sends none,
\* and commit sends its releases only once the batch is no longer open, for
\* jobs the batch submitted.
C1_ReleaseOnlyAfterLastSubmit ==
    \A r \in Sent :
        r.op = "rls" => /\ r.by = "commit"
                        /\ last.op = "commit"
                        /\ ghost.phase = "Committed"
                        /\ r.id \in ghost.batch

C1_Witness ==
    /\ last.op = "commit"
    /\ \E r \in Sent : r.op = "rls" /\ r.ok = "ok"
    /\ Len(pbs.submitted) >= 2

\* C2: with the scheduler free to start and finish any job without a hold whose
\* dependencies are met, no job of the batch leaves the queue before commit has
\* begun, so while the batch is open every dependency is still queued, and every
\* job of the batch is registered with the afterany constraint on all its
\* dependencies.
C2_NoStartBeforeCommit ==
    /\ \A id \in ghost.batch : sched[id].st # "Q" => ghost.phase = "Committed"
    /\ \A j \in ListJobs :
          /\ job[j].jobid \in DOMAIN sched
          /\ sched[job[j].jobid].deps = DepIds(job[j].deps)
          /\ None \notin sched[job[j].jobid].deps

C2_Witness ==
    \E d \in ghost.batch : \E id \in ghost.batch :
        /\ d \in sched[id].deps
        /\ sched[d].st = "F"
        /\ sched[id].st = "R"

\* C3: when no release request fails, after commit returns has_holds() is false
\* for every job in the submitted list.
C3_NoHoldsAfterCommit ==
    (Idle /\ last.op = "commit" /\ last.out = "ok")
        => \A j \in ListJobs : ~has_holds(job[j].holds)

\* C4: commit sends its release requests in submission order: of two release
\* requests of one commit, the earlier one is for the job submitted earlier.
C4_ReleaseInSubmissionOrder ==
    \A p \in DOMAIN ghost.rel : \A q \in DOMAIN ghost.rel :
        p < q => ghost.subAt[ghost.rel[p]] < ghost.subAt[ghost.rel[q]]

C4_Witness ==
    /\ Len(ghost.rel) >= 2
    /\ pbs.submitted[ghost.rel[1]] # pbs.submitted[ghost.rel[2]]

\* C5: commit runs to completion even when a release fails: it never ends in
\* the error of one release, and when it ends it has disconnected and has sent
\* a release for every job of the list that carried a user hold.
C5_CommitRunsToCompletion ==
    (Idle /\ last.op = "commit")
        => /\ last.out = "ok"
           /\ pbs.conn = None
           /\ \A i \in DOMAIN pbs.submitted :
                 InSeq(job[pbs.submitted[i]].holds, USER_HOLD) => InSeq(ghost.rel, i)

\* C6: in an open batch a job's identifier, once assigned, is never reassigned
\* or cleared by any call, and a job that has an identifier is not submitted to
\* the scheduler again.
C6_IdentifierAssignedOnce ==
    [][\A j \in Jobs :
          (ghost.phase = "Open" /\ job[j].jobid # None)
              => /\ job'[j].jobid = job[j].jobid
                 /\ ~(ncall' # ncall /\ last'.op = "submit" /\ last'.job = j)]_vars

\* C7: submitting, in an open batch, a job one of whose dependencies has no
\* identifier sends no submit request (none carries a constraint on a missing
\* identifier), and no job holds an identifier obtained with such a constraint.
C7_NoSubmitOnMissingDependency ==
    /\ ghost.phase = "Open" => \A r \in Sent : r.op = "submit" => None \notin r.deps
    /\ \A j \in Jobs : job[j].jobid # None => None \notin sched[job[j].jobid].deps

C9_ExactlyOneHoldUntilRelease ==
    ghost.phase = "Open"
        => \A j \in Jobs :
              job[j].jobid \in ghost.batch
                  => /\ job[j].holds = <<USER_HOLD>>
                     /\ sched[job[j].jobid].holds = {USER_HOLD}

\* C10: set_hold(k) with k already in holds, and release_hold(k) with k not in
\* holds, change nothing, send no request, and end in a warning.
C10_RedundantHoldIsNoOp ==
    [][\A j \in {last'.job} \cap Jobs : \A k \in HoldArgs :
          /\ (last'.op = "set_hold" /\ SetHold(j, k) /\ InSeq(job[j].holds, k))
                => /\ job' = job
                   /\ sched' = sched
                   /\ last'.sent = <<>>
                   /\ last'.out = "warning"
          /\ (last'.op = "release_hold" /\ ReleaseHold(j, k) /\ ~InSeq(job[j].holds, k))
                => /\ job' = job
                   /\ sched' = sched
                   /\ last'.sent = <<>>
                   /\ last'.out = "warning"]_vars

C10_Witness ==
    /\ last.op = "set_hold"
    /\ last.out = "warning"
    /\ job[last.job].holds = <<USER_HOLD>>
    /\ job[last.job].jobid # None

\* C12: a constructed job's hours never exceed MAX_WALLTIME and its cores never
\* exceed the node capacity; a request above the bound is not rejected but reset
\* to the bound with a warning, and a value left out becomes the bound.
C12_ResourcesClampedToBound ==
    [][\A j \in {last'.job} \cap Jobs : \A hours \in HoursArgs : \A cores \in CoresArgs :
          (MakeJob(j, hours, cores) /\ ~PpnFails)
              => /\ job'[j].made
                 /\ last'.out # "error"
                 /\ job'[j].hours <= MAX_WALLTIME
                 /\ job'[j].cores <= pbs'.ppn
                 /\ hours = NoArg => job'[j].hours = MAX_WALLTIME
                 /\ cores = NoArg => job'[j].cores = pbs'.ppn
                 /\ (hours # NoArg /\ ArgValue(hours) > MAX_WALLTIME)
                        => (job'[j].hours = MAX_WALLTIME /\ last'.out = "warning")
                 /\ (cores # NoArg /\ ArgValue(cores) > pbs'.ppn)
                        => (job'[j].cores = pbs'.ppn /\ last'.out = "warning")]_vars

C12_Witness ==
    /\ last.op = "make_job"
    /\ last.out = "warning"
    /\ job[last.job].hours = MAX_WALLTIME
    /\ job[last.job].cores = 0

\* C17: the node capacity, once computed, is a core count of an available node
\* that no other core count of available nodes beats in frequency, and the
\* largest of those equally frequent; the nodes are queried once for it; with
\* no available node it is never set and no job is constructed.
C17_PpnIsMostFrequent ==
    LET avail == {i \in DOMAIN nodes : nodes[i].state \in {"free", "job-exclusive"}}
        freq(np) == Cardinality({i \in avail : nodes[i].np = np})
    IN  /\ pbs.ppn # None
            => /\ \E i \in avail : nodes[i].np = pbs.ppn
               /\ \A i \in avail :
                     \/ freq(nodes[i].np) < freq(pbs.ppn)
                     \/ (freq(nodes[i].np) = freq(pbs.ppn) /\ nodes[i].np <= pbs.ppn)
               /\ ghost.nq = 1
        /\ avail = {}
            => /\ pbs.ppn = None
               /\ Made = {}
               /\ last.op = "make_job" => last.out = "error"

C17_Witness ==
    /\ pbs.ppn = 2
    /\ \E i \in DOMAIN nodes : \E k \in DOMAIN nodes :
          /\ nodes[i].np = 1 /\ nodes[i].state = "job-exclusive"
          /\ nodes[k].np = 2 /\ nodes[k].state = "free"
    /\ \E i \in DOMAIN nodes : nodes[i].state = "down"
    /\ Cardinality(Made) >= 2

\* C19: every constructed job has 1 <= hours <= MAX_WALLTIME and
\* 1 <= cores <= node capacity, whatever hours and cores were asked for.
C19_ResourcesInFullRange ==
    \A j \in Made :
        /\ 1 <= job[j].hours /\ job[j].hours <= MAX_WALLTIME
        /\ 1 <= job[j].cores /\ job[j].cores <= pbs.ppn

\* C15: set_hold and release_hold with a hold kind outside KNOWN_HOLD_TYPES end
\* in an error, send no request to the scheduler, and leave the job's holds
\* unchanged.
C15_UnknownHoldKindIsHardError ==
    [][\A j \in {last'.job} \cap Jobs : \A k \in HoldArgs \ KNOWN_HOLD_TYPES :
          (SetHold(j, k) \/ ReleaseHold(j, k))
              => /\ last'.out = "error"
                 /\ last'.sent = <<>>
                 /\ job' = job]_vars

\* C16: a set_hold or release_hold the scheduler fails (error status or
\* non-zero exit code) leaves the job's holds as they were and ends in an
\* error; a call the scheduler carries out adds the kind to holds (set_hold) or
\* takes it out (release_hold); holds change in no other case.
C16_FailedHoldLeavesHolds ==
    [][\A j \in {last'.job} \cap Jobs : \A k \in HoldArgs :
          LET failedReq == \E i \in DOMAIN last'.sent : last'.sent[i].ok = "err"
              doneReq == \E i \in DOMAIN last'.sent : last'.sent[i].ok = "ok"
              cnt(h, x) == Cardinality({i \in DOMAIN h : h[i] = x})
          IN  /\ (last'.op = "set_hold" /\ SetHold(j, k))
                    => /\ failedReq => (job' = job /\ last'.out = "error")
                       /\ doneReq => job'[j].holds = Append(job[j].holds, k)
                       /\ job' # job => doneReq
              /\ (last'.op = "release_hold" /\ ReleaseHold(j, k))
                    => /\ failedReq => (job' = job /\ last'.out = "error")
                       /\ doneReq => \A x \in HoldArgs :
                                        cnt(job'[j].holds, x) =
                                            cnt(job[j].holds, x) - (IF x = k THEN 1 ELSE 0)
                       /\ job' # job => doneReq]_vars

C16_Witness ==
    /\ last.op = "release_hold"
    /\ last.out = "error"
    /\ \E r \in Sent : r.op = "rls" /\ r.ok = "err" /\ r.id # None
    /\ job[last.job].holds = <<USER_HOLD>>

\* C11: state() reports 'not submitted' exactly when the job has no identifier;
\* for a job with an identifier it reports 'finished' when the status query
\* finds no record, 'queued' when the record's job_state is 'Q', and 'running'
\* for any other job_state.
C11_StateDerivation ==
    [][\A j \in {last'.job} \cap Jobs :
          State(j)
              => LET id == job[j].jobid
                     found == PbsStat(job[j].pbsconn, id)
                 IN  /\ last'.out = "not submitted" <=> id = None
                     /\ id # None
                           => last'.out = (IF found = "" THEN "finished"
                                           ELSE IF found = "Q" THEN "queued"
                                           ELSE "running")]_vars

C11_Witness ==
    /\ last.op = "state"
    /\ last.out = "running"
    /\ \E k \in Jobs : k # last.job /\ job[k].jobid # None

\* C13: begin() called while a batch is open does not reset the submitted-jobs
\* list: the jobs already submitted stay in the list commit releases.
C13_SecondBeginKeepsList ==
    [][(ghost.phase = "Open" /\ Begin) => pbs'.submitted = pbs.submitted]_vars

\* C14: no submit request is accepted by the scheduler outside an open batch:
\* a submit before begin or after commit sends none.
C14_SubmitOnlyWhileOpen ==
    \A r \in Sent : (r.op = "submit" /\ r.ok = "ok") => ghost.phase = "Open"

\* C18: the connection handle is set only while that connection is open, the
\* server object never has a second connection open, and no disconnect request
\* is sent when there is no connection.
C18_HandleOnlyWhileConnected ==
    /\ pbs.conn # None => pbs.conn \in lib.open
    /\ lib.open \subseteq {pbs.conn}
    /\ \A r \in Sent : r.op = "disc" => r.id # None

\* C20: a status query or a delete request for a job that has an identifier
\* goes over a handle that is open when the request is sent.
C20_RequestsOverOpenHandle ==
    \A r \in Sent :
        (r.op \in {"stat", "del"} /\ job[r.job].jobid # None)
            => job[r.job].pbsconn \in lib.open

\* C21: a job's local holds mirror the scheduler: a hold kind is in job.holds
\* exactly when the job has an identifier and its scheduler record carries that
\* hold; a job without an identifier has no holds and has_holds() false.
C21_HoldsMirrorScheduler ==
    \A j \in Made :
        /\ \A k \in KNOWN_HOLD_TYPES :
              InSeq(job[j].holds, k)
                  <=> (job[j].jobid # None /\ k \in sched[job[j].jobid].holds)
        /\ job[j].jobid = None => ~has_holds(job[j].holds)
====
